---------------------------- MODULE Spec2Model ----------------------------
(***************************************************************************)
(* Model of the payin calculator API (api/app.py).                         *)
(*                                                                         *)
(* A PayinCalculatorHandler instance is created per HTTP request.  Its     *)
(* constructor loads and cleans Payin.xlsx into self.df, then the request  *)
(* is dispatched to get_data / get_products / get_regions /                *)
(* calculate_payin / health_check, which send one JSON response.           *)
(*                                                                         *)
(* Encoding.                                                               *)
(*   - A Python str is a sequence of code points, so that strip(),         *)
(*     lower(), substring search and sorted() are computed, not assumed.   *)
(*   - A cell or JSON value is a record [k, v]: k = "str" (v the code      *)
(*     points), "num" (v the number in thousandths), "nan", "inf" (v the   *)
(*     sign) or "none" (Python None, JSON null or a missing key).          *)
(*   - Floats are exact rationals in thousandths; the inputs are chosen so *)
(*     that every product and quotient computed is exact.                  *)
(*   - pandas semantics are those of pandas 1.x / 2.x (astype(str) turns a *)
(*     missing cell into the string "nan").                                *)
(***************************************************************************)
EXTENDS Integers, Sequences, FiniteSets, TLC

VARIABLES file, ldf, df, pc, req, resp

vars == <<file, ldf, df, pc, req, resp>>

-----------------------------------------------------------------------------
(* Bounds *)

MaxRows == 2

NumHandlers == 2

-----------------------------------------------------------------------------
(* Values *)

Str(s) == [k |-> "str", v |-> s]
Num(n) == [k |-> "num", v |-> n]
NaN == [k |-> "nan", v |-> 0]
PosInf == [k |-> "inf", v |-> 1]
NegInf == [k |-> "inf", v |-> -1]
None == [k |-> "none", v |-> 0]

\* n whole units, in thousandths
Units(n) == Num(n * 1000)

IsStr(x) == x.k = "str"
IsNum(x) == x.k = "num"

\* pd.isna(x): NaN and None are missing, everything else is not
IsNa(x) == x.k \in {"nan", "none"}

-----------------------------------------------------------------------------
(* Python str operations, on sequences of code points *)

\* the characters str.strip() removes (ASCII whitespace)
IsSpace(c) == c \in {9, 10, 11, 12, 13, 28, 29, 30, 31, 32}

RECURSIVE LStrip(_)
LStrip(s) ==
    IF s # << >> /\ IsSpace(Head(s)) THEN LStrip(Tail(s)) ELSE s

RECURSIVE RStrip(_)
RStrip(s) ==
    IF s # << >> /\ IsSpace(s[Len(s)]) THEN RStrip(SubSeq(s, 1, Len(s) - 1)) ELSE s

\* str.strip()
Strip(s) == RStrip(LStrip(s))

\* str.lower(), ASCII letters
Lower(s) == [i \in 1..Len(s) |-> IF s[i] >= 65 /\ s[i] <= 90 THEN s[i] + 32 ELSE s[i]]

\* sub in s
Contains(sub, s) ==
    \E i \in 0..(Len(s) - Len(sub)) : SubSeq(s, i + 1, i + Len(sub)) = sub

\* s < t in Python's str ordering (code point order, a prefix sorts first)
RECURSIVE StrLess(_, _)
StrLess(s, t) ==
    IF t = << >> THEN FALSE
    ELSE IF s = << >> THEN TRUE
    ELSE IF Head(s) # Head(t) THEN Head(s) < Head(t)
    ELSE StrLess(Tail(s), Tail(t))

\* insert x into the ascending sequence q
RECURSIVE Insert(_, _)
Insert(x, q) ==
    IF q = << >> THEN <<x>>
    ELSE IF StrLess(x, Head(q)) THEN <<x>> \o q
    ELSE <<Head(q)>> \o Insert(x, Tail(q))

\* sorted(q) for a list of str
RECURSIVE Sorted(_)
Sorted(q) == IF q = << >> THEN << >> ELSE Insert(Head(q), Sorted(Tail(q)))

\* Series.unique(): the distinct values in order of first appearance
RECURSIVE Unique(_)
Unique(q) ==
    IF q = << >> THEN << >>
    ELSE LET r == Unique(SubSeq(q, 1, Len(q) - 1))
             x == q[Len(q)]
         IN IF \E i \in 1..Len(r) : r[i] = x THEN r ELSE Append(r, x)

\* [x for x in q if P(x)]
RECURSIVE SelectSeqIdx(_, _)
SelectSeqIdx(n, keep) ==
    IF n = 0 THEN << >>
    ELSE IF n \in keep THEN Append(SelectSeqIdx(n - 1, keep), n)
    ELSE SelectSeqIdx(n - 1, keep)

-----------------------------------------------------------------------------
(* Names used by the code *)

LendersCol == <<76, 101, 110, 100, 101, 114, 115>>            \* "Lenders"
ProductCol == <<80, 114, 111, 100, 117, 99, 116>>             \* "Product"
RegionCol == <<82, 101, 103, 105, 111, 110>>                  \* "Region"
\* "Lower Slab (In Cr.)"
LowerCol == <<76, 111, 119, 101, 114, 32, 83, 108, 97, 98, 32, 40, 73, 110, 32, 67, 114, 46, 41>>
\* "Higher Slab (In Cr.)"
HigherCol == <<72, 105, 103, 104, 101, 114, 32, 83, 108, 97, 98, 32, 40, 73, 110, 32, 67, 114, 46, 41>>

KwPayin == <<112, 97, 121, 105, 110>>                          \* "payin"
KwAmount == <<97, 109, 111, 117, 110, 116>>                    \* "amount"
KwRate == <<114, 97, 116, 101>>                                \* "rate"
KwPercentage == <<112, 101, 114, 99, 101, 110, 116, 97, 103, 101>> \* "percentage"
KwPercent == <<37>>                                            \* "%"

NanStr == <<110, 97, 110>>                                     \* "nan"
InfStr == <<105, 110, 102>>                                    \* "inf"


-----------------------------------------------------------------------------
(* Number parsing *)

ParseError == [k |-> "err", v |-> 0]

IsDigits(s) == s # << >> /\ \A i \in 1..Len(s) : s[i] >= 48 /\ s[i] <= 57

RECURSIVE DigitsValue(_)
DigitsValue(s) ==
    IF s = << >> THEN 0 ELSE 10 * DigitsValue(SubSeq(s, 1, Len(s) - 1)) + (s[Len(s)] - 48)

\* float(s) for a str: surrounding whitespace is ignored, "inf" and "nan"
\* are accepted in any case, anything else that is not a number fails
\* (unsigned whole numbers are the numeric strings modelled)
ParseFloat(s) ==
    LET t == Lower(Strip(s))
    IN IF t = InfStr THEN PosInf
       ELSE IF t = NanStr THEN NaN
       ELSE IF IsDigits(t) THEN Units(DigitsValue(t))
       ELSE ParseError

\* float(x): numbers pass through, str is parsed, None is a TypeError
ToFloat(x) ==
    IF IsStr(x) THEN ParseFloat(x.v)
    ELSE IF x.k = "none" THEN ParseError
    ELSE x

-----------------------------------------------------------------------------
(* Float comparison and arithmetic (IEEE: NaN compares false) *)

Leq(a, b) ==
    IF a.k = "nan" \/ b.k = "nan" THEN FALSE
    ELSE IF a.k = "inf" THEN (a.v = -1 \/ (b.k = "inf" /\ b.v = 1))
    ELSE IF b.k = "inf" THEN b.v = 1
    ELSE a.v <= b.v

\* a > b
Gt(a, b) == IF a.k = "nan" \/ b.k = "nan" THEN FALSE ELSE ~Leq(a, b)

Sign(n) == IF n > 0 THEN 1 ELSE IF n < 0 THEN -1 ELSE 0

\* a * b
Mul(a, b) ==
    IF a.k = "nan" \/ b.k = "nan" THEN NaN
    ELSE IF a.k = "inf" \/ b.k = "inf"
         THEN IF Sign(a.v) * Sign(b.v) = 0 THEN NaN
              ELSE [k |-> "inf", v |-> Sign(a.v) * Sign(b.v)]
    ELSE Num((a.v * b.v) \div 1000)

\* a / 100
Div100(a) == IF IsNum(a) THEN Num(a.v \div 100) ELSE a

-----------------------------------------------------------------------------
(* Tables: columns is the list of column names, rows the list of rows,      *)
(* each row the list of its cells in column order                           *)

NoDf == [loaded |-> FALSE, columns |-> << >>, rows |-> << >>]

\* position of column name in the table, 0 when the table has no such column
ColIdx(columns, name) ==
    IF \E i \in 1..Len(columns) : columns[i] = name
    THEN CHOOSE i \in 1..Len(columns) :
            columns[i] = name /\ \A j \in 1..(i - 1) : columns[j] # name
    ELSE 0

HasCol(t, name) == ColIdx(t.columns, name) # 0

\* row[name] / df[name] for one row
Cell(t, row, name) == row[ColIdx(t.columns, name)]

\* astype(str) of one cell: a missing cell becomes the text "nan"
AsTypeStr(x) == IF IsStr(x) THEN x ELSE Str(NanStr)

\* df[col].astype(str).str.strip() of one cell
CleanStr(x) == Str(Strip(AsTypeStr(x).v))

\* pd.to_numeric(errors='coerce') of one cell
ToNumeric(x) ==
    IF IsStr(x)
    THEN (IF ParseFloat(x.v) = ParseError THEN NaN ELSE ParseFloat(x.v))
    ELSE IF IsNa(x) THEN NaN ELSE x

\* if col in df.columns: df[col] = df[col].astype(str).str.strip()
CleanStrCol(t, col) ==
    IF HasCol(t, col)
    THEN [t EXCEPT !.rows =
            [i \in 1..Len(t.rows) |->
                [t.rows[i] EXCEPT ![ColIdx(t.columns, col)] = CleanStr(@)]]]
    ELSE t

\* if col in df.columns: df[col] = pd.to_numeric(df[col], errors='coerce')
ToNumericCol(t, col) ==
    IF HasCol(t, col)
    THEN [t EXCEPT !.rows =
            [i \in 1..Len(t.rows) |->
                [t.rows[i] EXCEPT ![ColIdx(t.columns, col)] = ToNumeric(@)]]]
    ELSE t

\* df.columns = df.columns.str.strip()
CleanColumns(t) == [t EXCEPT !.columns = [i \in 1..Len(t.columns) |-> Strip(t.columns[i])]]

\* CleanStrings that cleans the first of string_columns only
CleanStringsFirstOnly(t) == CleanStrCol(t, LendersCol)

\* the loop over string_columns
CleanStrings(t) == CleanStrCol(CleanStrCol(CleanStrCol(t, LendersCol), ProductCol), RegionCol)

\* the loop over numeric_columns
CleanNumeric(t) == ToNumericCol(ToNumericCol(t, LowerCol), HigherCol)

\* df.dropna(how='all')
DropNa(t) ==
    LET keep == {i \in 1..Len(t.rows) : \E j \in 1..Len(t.rows[i]) : ~IsNa(t.rows[i][j])}
        idx == SelectSeqIdx(Len(t.rows), keep)
    IN [t EXCEPT !.rows = [n \in 1..Len(idx) |-> t.rows[idx[n]]]]

-----------------------------------------------------------------------------
(* Responses: status code, the "detail" text of an error (or "success"),    *)
(* the "data" object of a success, and the index in self.df of the local    *)
(* matched_row of calculate_payin (0 when it is None)                       *)

NoResp == [status |-> 0, detail |-> "", data |-> << >>, matched |-> 0]

\* send_error_response(message, status_code)
ErrorResp(message, code) == [status |-> code, detail |-> message, data |-> << >>, matched |-> 0]

\* send_json_response({"status": "success", "data": data})
SuccessResp(data) == [status |-> 200, detail |-> "success", data |-> data, matched |-> 0]

-----------------------------------------------------------------------------
(* Lookups *)

\* indices of the rows with row[name].str.strip() == value, for every
\* (name, value) of the filter; the columns are known to exist
FilterRows(t, names, values) ==
    {i \in 1..Len(t.rows) :
        \A n \in 1..Len(names) :
            LET c == Cell(t, t.rows[i], names[n])
            IN IsStr(c) /\ Strip(c.v) = values[n]}

\* sorted([x for x in sub[name].dropna().unique() if str(x).strip() != ''])
\* over the rows of t whose index is in keep
DistinctSorted(t, keep, name) ==
    LET idx == SelectSeqIdx(Len(t.rows), keep)
        col == [n \in 1..Len(idx) |-> Cell(t, t.rows[idx[n]], name)]
        present == SelectSeq(col, LAMBDA x : ~IsNa(x))
        uniq == Unique([n \in 1..Len(present) |-> present[n].v])
    IN Sorted(SelectSeq(uniq, LAMBDA x : Strip(x) # << >>))

AllRows(t) == 1..Len(t.rows)

get_data(t) ==
    IF ~t.loaded THEN ErrorResp("Excel data not loaded", 500)
    ELSE IF ~(HasCol(t, LendersCol) /\ HasCol(t, ProductCol) /\ HasCol(t, RegionCol))
    THEN ErrorResp("Error retrieving data", 500)      \* KeyError
    ELSE SuccessResp([lenders |-> DistinctSorted(t, AllRows(t), LendersCol),
                      products |-> DistinctSorted(t, AllRows(t), ProductCol),
                      regions |-> DistinctSorted(t, AllRows(t), RegionCol)])

get_products(t, lender) ==
    IF ~t.loaded THEN ErrorResp("Excel data not loaded", 500)
    ELSE IF ~HasCol(t, LendersCol)
    THEN ErrorResp("Error retrieving products", 500)  \* KeyError
    ELSE LET filtered == FilterRows(t, <<LendersCol>>, <<Strip(lender)>>)
         IN IF filtered = {}
            THEN SuccessResp([lender |-> lender, products |-> << >>])
            ELSE IF ~HasCol(t, ProductCol)
            THEN ErrorResp("Error retrieving products", 500)
            ELSE SuccessResp([lender |-> lender,
                              products |-> DistinctSorted(t, filtered, ProductCol)])

get_regions(t, lender, product) ==
    IF ~t.loaded THEN ErrorResp("Excel data not loaded", 500)
    ELSE IF ~(HasCol(t, LendersCol) /\ HasCol(t, ProductCol))
    THEN ErrorResp("Error retrieving regions", 500)   \* KeyError
    ELSE LET filtered == FilterRows(t, <<LendersCol, ProductCol>>,
                                       <<Strip(lender), Strip(product)>>)
         IN IF filtered = {}
            THEN SuccessResp([lender |-> lender, product |-> product, regions |-> << >>])
            ELSE IF ~HasCol(t, RegionCol)
            THEN ErrorResp("Error retrieving regions", 500)
            ELSE SuccessResp([lender |-> lender, product |-> product,
                              regions |-> DistinctSorted(t, filtered, RegionCol)])

health_check(t) ==
    [status |-> IF t.loaded THEN 200 ELSE 503,
     detail |-> IF t.loaded THEN "healthy" ELSE "unhealthy",
     data |-> [rows |-> IF t.loaded THEN Len(t.rows) ELSE -1],
     matched |-> 0]

-----------------------------------------------------------------------------
(* calculate_payin *)

\* a key the JSON body does not have
Absent == [k |-> "absent", v |-> 0]

\* data.get(key, '') can be stripped: a str, or the default '' of an absent key
Strippable(x) == IsStr(x) \/ x.k = "absent"

\* data.get(key, '').strip()
GetStripped(x) == IF IsStr(x) THEN Strip(x.v) ELSE << >>

\* row.get(name, default)
RowGet(t, row, name, default) == IF HasCol(t, name) THEN Cell(t, row, name) ELSE default

\* InSlab with the upper bound exclusive
InSlabUpperExclusive(t, row, amount) ==
    LET lower_raw == IF ColIdx(t.columns, LowerCol) # 0 THEN row[ColIdx(t.columns, LowerCol)] ELSE Units(0)
        higher_raw == IF ColIdx(t.columns, HigherCol) # 0 THEN row[ColIdx(t.columns, HigherCol)] ELSE PosInf
        lower_slab == IF IsNa(lower_raw) THEN Units(0) ELSE lower_raw
        higher_slab == IF IsNa(higher_raw) THEN PosInf ELSE higher_raw
    IN Leq(lower_slab, amount) /\ Leq(amount, higher_slab) /\ amount # higher_slab

\* lower_slab <= amount <= higher_slab after the NaN defaults
InSlab(t, row, amount) ==
    LET lower_raw == RowGet(t, row, LowerCol, Units(0))
        higher_raw == RowGet(t, row, HigherCol, PosInf)
        lower_slab == IF IsNa(lower_raw) THEN Units(0) ELSE lower_raw
        higher_slab == IF IsNa(higher_raw) THEN PosInf ELSE higher_raw
    IN Leq(lower_slab, amount) /\ Leq(amount, higher_slab)

\* FirstMatch without the break: the last row whose slab contains amount wins
FirstMatchNoBreak(t, filtered, amount) ==
    LET hits == {i \in filtered :
                    LET lower_raw == IF ColIdx(t.columns, LowerCol) # 0 THEN t.rows[i][ColIdx(t.columns, LowerCol)] ELSE Units(0)
                        higher_raw == IF ColIdx(t.columns, HigherCol) # 0 THEN t.rows[i][ColIdx(t.columns, HigherCol)] ELSE PosInf
                    IN /\ Leq(IF IsNa(lower_raw) THEN Units(0) ELSE lower_raw, amount)
                       /\ Leq(amount, IF IsNa(higher_raw) THEN PosInf ELSE higher_raw)}
    IN IF hits = {} THEN 0 ELSE CHOOSE i \in hits : \A j \in hits : i >= j

\* the for loop: index of the first row of filtered, in table order, whose
\* slab contains amount; 0 when the loop ends without a break
FirstMatch(t, filtered, amount) ==
    LET hits == {i \in filtered : InSlab(t, t.rows[i], amount)}
    IN IF hits = {} THEN 0 ELSE CHOOSE i \in hits : \A j \in hits : i <= j

IsPayinColumn(name) == Contains(KwPayin, Lower(name)) \/ Contains(KwAmount, Lower(name))

IsRateColumn(name) ==
    \/ Contains(KwRate, Lower(name))
    \/ Contains(KwPercentage, Lower(name))
    \/ Contains(KwPercent, Lower(name))

\* [col for col in row.index if 'payin' in col.lower() or 'amount' in col.lower()],
\* as column positions
PayinColumns(t) ==
    SelectSeqIdx(Len(t.columns), {i \in 1..Len(t.columns) : IsPayinColumn(t.columns[i])})

\* [col for col in row.index if any(keyword in col.lower() for keyword in [...])]
RateColumns(t) ==
    SelectSeqIdx(Len(t.columns), {i \in 1..Len(t.columns) : IsRateColumn(t.columns[i])})

\* RatePayin with the threshold at rate >= 1
RatePayinFromOne(amount, rate) ==
    IF Leq(Units(1), rate) THEN Mul(amount, Div100(rate)) ELSE Mul(amount, rate)

\* amount * (rate / 100) if rate > 1 else amount * rate
RatePayin(amount, rate) ==
    IF Gt(rate, Units(1)) THEN Mul(amount, Div100(rate)) ELSE Mul(amount, rate)

\* the body of "if lower_slab <= amount <= higher_slab": the value of
\* payin_amount at the break, or RaisedError when the rate arithmetic raises
RaisedError == [k |-> "raise", v |-> 0]

PayinOfRow(t, row, amount) ==
    LET payin_columns == PayinColumns(t)
        rate_columns == RateColumns(t)
    IN IF payin_columns # << >> THEN row[payin_columns[1]]
       ELSE IF rate_columns = << >> THEN None
       ELSE LET rate == row[rate_columns[1]]
            IN IF IsNa(rate) THEN None
               ELSE IF IsStr(rate) THEN RaisedError      \* TypeError
               ELSE RatePayin(amount, rate)

\* float(x) if not pd.isna(x) else default
FloatOr(x, default) == IF IsNa(x) THEN default ELSE ToFloat(x)

\* the code after the parameters are validated; amount is a float
Lookup(t, lender, product, region, amount) ==
    IF ~(HasCol(t, LendersCol) /\ HasCol(t, ProductCol) /\ HasCol(t, RegionCol))
    THEN ErrorResp("Error calculating payin amount", 500)     \* KeyError
    ELSE
    LET filtered == FilterRows(t, <<LendersCol, ProductCol, RegionCol>>,
                                  <<lender, product, region>>)
        m == FirstMatch(t, filtered, amount)
        payin_amount == IF m = 0 THEN None ELSE PayinOfRow(t, t.rows[m], amount)
    IN IF filtered = {}
       THEN ErrorResp("No data found", 404)
       ELSE IF payin_amount = RaisedError
       THEN ErrorResp("Error calculating payin amount", 500)
       ELSE IF payin_amount = None
       THEN [ErrorResp("No matching slab found", 404) EXCEPT !.matched = m]
       ELSE IF \/ FloatOr(payin_amount, Units(0)) = ParseError  \* ValueError
               \/ ~HasCol(t, LowerCol) \/ ~HasCol(t, HigherCol) \* KeyError
       THEN [ErrorResp("Error calculating payin amount", 500) EXCEPT !.matched = m]
       ELSE [SuccessResp([lender |-> lender, product |-> product, region |-> region,
                          input_amount |-> amount,
                          payin_amount |-> FloatOr(payin_amount, Units(0)),
                          lower_slab |-> FloatOr(Cell(t, t.rows[m], LowerCol), Units(0)),
                          higher_slab |-> FloatOr(Cell(t, t.rows[m], HigherCol), None)])
             EXCEPT !.matched = m]

calculate_payin(t, data) ==
    IF ~t.loaded THEN ErrorResp("Excel data not loaded", 500)
    ELSE IF ~(Strippable(data.lender) /\ Strippable(data.product) /\ Strippable(data.region))
    THEN ErrorResp("Error calculating payin amount", 500)     \* AttributeError
    ELSE IF \/ GetStripped(data.lender) = << >>
            \/ GetStripped(data.product) = << >>
            \/ GetStripped(data.region) = << >>
    THEN ErrorResp("Missing required parameters: lender, product, region", 400)
    ELSE IF data.amount.k \in {"none", "absent"}
    THEN ErrorResp("Missing required parameter: amount", 400)
    ELSE IF ToFloat(data.amount) = ParseError
    THEN ErrorResp("Amount must be a valid number", 400)
    ELSE Lookup(t, GetStripped(data.lender), GetStripped(data.product),
                GetStripped(data.region), ToFloat(data.amount))

-----------------------------------------------------------------------------
(* The rate sheets and requests explored *)

PayinName == <<80, 97, 121, 105, 110>>                                   \* "Payin"
RatePctName == <<82, 97, 116, 101, 32, 37>>                              \* "Rate %"
PayinAmountName == <<80, 97, 121, 105, 110, 32, 65, 109, 111, 117, 110, 116>> \* "Payin Amount"
LendersPadded == <<76, 101, 110, 100, 101, 114, 115, 32>>                \* "Lenders "

TxtA == <<65>>            \* "A"
TxtPadA == <<32, 65>>     \* " A"
TxtB == <<66>>            \* "B"
TxtX == <<88>>            \* "X"
TxtN == <<78>>            \* "N"
TxtBlank == <<32>>        \* " "
TxtJunk == <<97, 98, 99>> \* "abc"
TxtTwo == <<50>>          \* "2"

\* all rows whose j-th cell is drawn from doms[j]
RECURSIVE Tuples(_)
Tuples(doms) ==
    IF doms = << >> THEN {<< >>}
    ELSE {Append(r, x) : r \in Tuples(SubSeq(doms, 1, Len(doms) - 1)), x \in doms[Len(doms)]}

\* all readable sheets with the given header and at most MaxRows rows
Sheets(columns, doms) ==
    {[st |-> "ok", columns |-> columns, rows |-> rs] :
        rs \in UNION {[1..n -> Tuples(doms)] : n \in 0..MaxRows}}

Dims == <<LendersCol, ProductCol, RegionCol>>
Slabs == <<LowerCol, HigherCol>>
OneTriple == <<{Str(TxtA)}, {Str(TxtX)}, {Str(TxtN)}>>

\* sheets that vary the dimension cells (padded, blank and missing cells)
DimSheets ==
    Sheets(<<LendersPadded, ProductCol, RegionCol>> \o Slabs \o <<PayinName>>,
           <<{Str(TxtB), Str(TxtPadA), NaN}, {Str(TxtX), NaN}, {Str(TxtN), Str(TxtBlank)},
             {NaN}, {NaN}, {Units(5)}>>)

\* sheets that vary the slab bounds; the payout tells the rows apart
SlabSheets ==
    Sheets(Dims \o Slabs \o <<PayinName>>,
           OneTriple \o <<{Str(TxtJunk), Units(1), Str(TxtTwo)}, {NaN, Units(2), Units(3)},
                          {Units(5), Units(7)}>>)

\* sheets that vary the payout columns and their values
PayinSheets ==
    Sheets(Dims \o Slabs \o <<PayinName, RatePctName>>,
           OneTriple \o <<{NaN}, {NaN, Units(1)},
                          {NaN, Units(0), Units(5), Str(TxtJunk)}, {NaN, Units(50)}>>)

RateSheets ==
    Sheets(Dims \o Slabs \o <<RatePctName>>,
           OneTriple \o <<{NaN, Units(-1)}, {NaN},
                          {NaN, Units(0), Num(500), Units(1), Num(1500), Units(50),
                           Units(80), Str(TxtJunk)}>>)

RateFirstSheets ==
    Sheets(Dims \o Slabs \o <<RatePctName, PayinAmountName>>,
           OneTriple \o <<{NaN}, {NaN}, {Units(50)}, {NaN, Units(5)}>>)

BareSheets ==
    Sheets(Dims \o Slabs, OneTriple \o <<{NaN, Units(1)}, {NaN, Units(2)}>>)

\* sheets without the slab columns, without a dimension column, or with
\* the slab columns only (their blank rows are dropped by the load)
ShortSheets ==
    Sheets(Dims \o <<PayinName>>, OneTriple \o <<{Units(5)}>>)
    \cup Sheets(<<LendersCol, ProductCol, PayinName>>, <<{Str(TxtA)}, {Str(TxtX)}, {NaN}>>)
    \cup Sheets(Slabs, <<{NaN, Units(1)}, {NaN}>>)

Missing == [st |-> "missing", columns |-> << >>, rows |-> << >>]
Corrupt == [st |-> "corrupt", columns |-> << >>, rows |-> << >>]

Files ==
    {Missing, Corrupt} \cup DimSheets \cup SlabSheets \cup PayinSheets \cup RateSheets
    \cup RateFirstSheets \cup BareSheets \cup ShortSheets

Body(lender, product, region, amount) ==
    [lender |-> lender, product |-> product, region |-> region, amount |-> amount]

\* request bodies: one field varied at a time around {"A", "X", "N", 2}
Bodies ==
    {Body(l, Str(TxtX), Str(TxtN), Units(2)) :
        l \in {Str(TxtA), Str(TxtPadA), Str(TxtB), Str(NanStr), Str(TxtBlank), Absent, None}}
    \cup {Body(Str(TxtA), p, Str(TxtN), Units(2)) : p \in {Str(<< >>), Absent, None}}
    \cup {Body(Str(TxtA), Str(TxtX), r, Units(2)) : r \in {Str(TxtBlank), Absent, Units(2)}}
    \cup {Body(Str(TxtA), Str(TxtX), Str(TxtN), a) :
            a \in {Absent, None, Str(TxtJunk), Str(InfStr), Str(TxtTwo), NaN, PosInf, NegInf,
                   Units(-1), Units(0), Units(1), Units(3), Units(4), Units(100)}}

\* path segments of /products/{lender} and /regions/{lender}/{product}
PathLenders == {TxtA, TxtPadA, TxtB, NanStr, << >>}
PathProducts == {TxtX, NanStr}

-----------------------------------------------------------------------------
(* State                                                                    *)
(*   file    Payin.xlsx as found on disk                                    *)
(*   ldf[h]  the local df of initialize_data in handler instance h          *)
(*   df[h]   self.df of handler instance h                                  *)
(*   pc[h]   where instance h is: not yet created ("idle"), loading         *)
(*           ("init", "columns", "strings", "numeric", "dropna"), about to  *)
(*           dispatch its request ("ready"), or "done"                      *)
(*   req[h]  the request dispatched, resp[h] the response sent              *)

NoReq == [op |-> "none"]

Handlers == DOMAIN pc

\* the server creates a handler instance for the next request: __init__
\* sets self.df = None and calls initialize_data
NewRequest(h) ==
    /\ pc[h] \in {"idle", "done"}
    /\ pc' = [pc EXCEPT ![h] = "init"]
    /\ req' = [req EXCEPT ![h] = NoReq]
    /\ resp' = [resp EXCEPT ![h] = NoResp]
    /\ df' = [df EXCEPT ![h] = NoDf]
    /\ UNCHANGED <<file, ldf>>

\* initialize_data looks for the file and reads it.  A missing file returns,
\* a failing read is caught and sets self.df = None.
LoadRead(h) ==
    /\ pc[h] = "init"
    /\ df' = [df EXCEPT ![h] = IF file.st = "corrupt" THEN NoDf ELSE @]
    /\ ldf' = [ldf EXCEPT ![h] = IF file.st = "ok"
                                 THEN [loaded |-> TRUE, columns |-> file.columns,
                                       rows |-> file.rows]
                                 ELSE @]
    /\ pc' = [pc EXCEPT ![h] = IF file.st = "ok" THEN "columns" ELSE "ready"]
    /\ UNCHANGED <<file, req, resp>>

LoadColumns(h) ==
    /\ pc[h] = "columns"
    /\ ldf' = [ldf EXCEPT ![h] = CleanColumns(@)]
    /\ pc' = [pc EXCEPT ![h] = "strings"]
    /\ UNCHANGED <<file, df, req, resp>>

LoadStrings(h) ==
    /\ pc[h] = "strings"
    /\ ldf' = [ldf EXCEPT ![h] = CleanStrings(@)]
    /\ pc' = [pc EXCEPT ![h] = "numeric"]
    /\ UNCHANGED <<file, df, req, resp>>

LoadNumeric(h) ==
    /\ pc[h] = "numeric"
    /\ ldf' = [ldf EXCEPT ![h] = CleanNumeric(@)]
    /\ pc' = [pc EXCEPT ![h] = "dropna"]
    /\ UNCHANGED <<file, df, req, resp>>

\* df = df.dropna(how='all'); self.df = df
LoadAssign(h) ==
    /\ pc[h] = "dropna"
    /\ df' = [df EXCEPT ![h] = DropNa(ldf[h])]
    /\ ldf' = [ldf EXCEPT ![h] = NoDf]
    /\ pc' = [pc EXCEPT ![h] = "ready"]
    /\ UNCHANGED <<file, req, resp>>

\* the request handlers read self.df and send one response

GetData(h) ==
    /\ pc[h] = "ready"
    /\ req' = [req EXCEPT ![h] = [op |-> "data"]]
    /\ resp' = [resp EXCEPT ![h] = get_data(df[h])]
    /\ pc' = [pc EXCEPT ![h] = "done"]
    /\ UNCHANGED <<file, ldf, df>>

GetProducts(h, lender) ==
    /\ pc[h] = "ready"
    /\ req' = [req EXCEPT ![h] = [op |-> "products", lender |-> lender]]
    /\ resp' = [resp EXCEPT ![h] = get_products(df[h], lender)]
    /\ pc' = [pc EXCEPT ![h] = "done"]
    /\ UNCHANGED <<file, ldf, df>>

GetRegions(h, lender, product) ==
    /\ pc[h] = "ready"
    /\ req' = [req EXCEPT ![h] = [op |-> "regions", lender |-> lender, product |-> product]]
    /\ resp' = [resp EXCEPT ![h] = get_regions(df[h], lender, product)]
    /\ pc' = [pc EXCEPT ![h] = "done"]
    /\ UNCHANGED <<file, ldf, df>>

CalculatePayin(h, data) ==
    /\ pc[h] = "ready"
    /\ req' = [req EXCEPT ![h] = [op |-> "calculate", data |-> data]]
    /\ resp' = [resp EXCEPT ![h] = calculate_payin(df[h], data)]
    /\ pc' = [pc EXCEPT ![h] = "done"]
    /\ UNCHANGED <<file, ldf, df>>

HealthCheck(h) ==
    /\ pc[h] = "ready"
    /\ req' = [req EXCEPT ![h] = [op |-> "health"]]
    /\ resp' = [resp EXCEPT ![h] = health_check(df[h])]
    /\ pc' = [pc EXCEPT ![h] = "done"]
    /\ UNCHANGED <<file, ldf, df>>

\* the rate sheet is replaced on disk
FileWrite(f) ==
    /\ file # f
    /\ file' = f
    /\ UNCHANGED <<ldf, df, pc, req, resp>>

-----------------------------------------------------------------------------
(* One handler instance at a time, over every sheet and request explored *)

InitWith(files, n) ==
    /\ file \in files
    /\ ldf = [h \in 1..n |-> NoDf]
    /\ df = [h \in 1..n |-> NoDf]
    /\ pc = [h \in 1..n |-> "idle"]
    /\ req = [h \in 1..n |-> NoReq]
    /\ resp = [h \in 1..n |-> NoResp]

Init == InitWith(Files, 1)

Next ==
    \/ NewRequest(1)
    \/ LoadRead(1)
    \/ LoadColumns(1)
    \/ LoadStrings(1)
    \/ LoadNumeric(1)
    \/ LoadAssign(1)
    \/ GetData(1)
    \/ \E lender \in PathLenders : GetProducts(1, lender)
    \/ \E lender \in PathLenders, product \in PathProducts : GetRegions(1, lender, product)
    \/ \E data \in Bodies : CalculatePayin(1, data)
    \/ HealthCheck(1)

Spec == Init /\ [][Next]_vars

-----------------------------------------------------------------------------
(* NumHandlers handler instances interleaved, while the sheet is replaced *)

ConcFiles ==
    {Missing,
     [st |-> "ok", columns |-> <<LendersPadded, ProductCol, RegionCol>> \o Slabs \o <<PayinName>>,
      rows |-> <<<<Str(TxtPadA), NaN, Str(TxtN), Str(TxtTwo), Str(TxtJunk), Units(5)>>>>],
     [st |-> "ok", columns |-> Dims \o Slabs \o <<RatePctName>>,
      rows |-> <<<<Str(TxtB), Str(TxtX), Str(TxtBlank), NaN, Units(3), Units(50)>>>>],
     [st |-> "ok", columns |-> Slabs, rows |-> <<<<NaN, NaN>>, <<Units(1), NaN>>>>]}

ConcBodies == {Body(Str(TxtA), Str(NanStr), Str(TxtN), Units(2)),
               Body(Str(TxtB), Str(TxtX), Str(<< >>), Units(2))}

InitConc == InitWith(ConcFiles, NumHandlers)

NextConc ==
    \/ \E h \in 1..NumHandlers : NewRequest(h)
    \/ \E h \in 1..NumHandlers : LoadRead(h)
    \/ \E h \in 1..NumHandlers : LoadColumns(h)
    \/ \E h \in 1..NumHandlers : LoadStrings(h)
    \/ \E h \in 1..NumHandlers : LoadNumeric(h)
    \/ \E h \in 1..NumHandlers : LoadAssign(h)
    \/ \E h \in 1..NumHandlers : GetData(h)
    \/ \E h \in 1..NumHandlers : GetProducts(h, TxtA)
    \/ \E h \in 1..NumHandlers : GetRegions(h, TxtA, NanStr)
    \/ \E h \in 1..NumHandlers, data \in ConcBodies : CalculatePayin(h, data)
    \/ \E h \in 1..NumHandlers : HealthCheck(h)
    \/ \E f \in ConcFiles : FileWrite(f)

SpecConc == InitConc /\ [][NextConc]_vars

-----------------------------------------------------------------------------
(* Vocabulary of the properties, stated on the cleaned table df[h] and the  *)
(* request req[h] independently of the handler code                         *)

Calculated(h) == pc[h] = "done" /\ req[h].op = "calculate"

\* the request body names a triple and a finite amount
ValidBody(data) ==
    /\ IsStr(data.lender) /\ Strip(data.lender.v) # << >>
    /\ IsStr(data.product) /\ Strip(data.product.v) # << >>
    /\ IsStr(data.region) /\ Strip(data.region.v) # << >>
    /\ \/ IsNum(data.amount)
       \/ IsStr(data.amount) /\ IsDigits(Strip(data.amount.v))

\* the amount of a valid body, in thousandths
AmountOf(data) ==
    IF IsNum(data.amount) THEN data.amount.v ELSE 1000 * DigitsValue(Strip(data.amount.v))

HasDims(t) == \A n \in 1..3 : \E i \in 1..Len(t.columns) : t.columns[i] = Dims[n]

\* rows of t whose dimension cells equal the trimmed triple of the body
TripleRows(t, data) ==
    {i \in 1..Len(t.rows) :
        /\ Cell(t, t.rows[i], LendersCol) = Str(Strip(data.lender.v))
        /\ Cell(t, t.rows[i], ProductCol) = Str(Strip(data.product.v))
        /\ Cell(t, t.rows[i], RegionCol) = Str(Strip(data.region.v))}

\* a slab bound of the row is present: the column exists and holds a number
HasBound(t, row, name) ==
    (\E i \in 1..Len(t.columns) : t.columns[i] = name) /\ IsNum(Cell(t, row, name))

\* effectiveLower <= amount <= effectiveHigher, amount in thousandths
Covers(t, row, a) ==
    /\ (IF HasBound(t, row, LowerCol) THEN Cell(t, row, LowerCol).v ELSE 0) <= a
    /\ HasBound(t, row, HigherCol) => a <= Cell(t, row, HigherCol).v

CoveringRows(t, data) == {i \in TripleRows(t, data) : Covers(t, t.rows[i], AmountOf(data))}

\* the request was valid and the table could be filtered and scanned
Scanned(h) ==
    /\ Calculated(h) /\ df[h].loaded /\ HasDims(df[h]) /\ ValidBody(req[h].data)
    /\ TripleRows(df[h], req[h].data) # {}

-----------------------------------------------------------------------------
\* C1: in calculate, a row of the rows filtered to the triple counts as
\* containing the amount exactly when effectiveLower <= amount <=
\* effectiveHigher (lower bound 0 and upper bound +infinity when absent),
\* both boundaries included: the scan stops at a row exactly when some
\* filtered row covers the amount, and the row it stops at covers it.
SlabInclusive ==
    \A h \in Handlers :
        Scanned(h) /\ resp[h].detail \in {"success", "No matching slab found"} =>
            /\ resp[h].matched # 0 <=> CoveringRows(df[h], req[h].data) # {}
            /\ resp[h].matched # 0 => resp[h].matched \in CoveringRows(df[h], req[h].data)

\* a request whose amount equals both slab bounds of the row it matched
SlabInclusiveWitness ==
    \E h \in Handlers :
        /\ Scanned(h) /\ resp[h].status = 200
        /\ LET row == df[h].rows[resp[h].matched]
           IN /\ Cell(df[h], row, LowerCol) = Num(AmountOf(req[h].data))
              /\ Cell(df[h], row, HigherCol) = Num(AmountOf(req[h].data))

\* C2: first-match-wins: when several rows of the triple cover the amount,
\* the earliest in table order is selected, and the payout and the echoed
\* slab bounds of a success come from that row.
FirstMatchWins ==
    \A h \in Handlers :
        Scanned(h) /\ resp[h].status = 200 =>
            LET t == df[h]
                hits == CoveringRows(t, req[h].data)
                first == CHOOSE i \in hits : \A j \in hits : i <= j
                row == t.rows[first]
            IN /\ hits # {}
               /\ resp[h].matched = first
               /\ resp[h].data.lower_slab =
                    (IF HasBound(t, row, LowerCol) THEN Cell(t, row, LowerCol) ELSE Units(0))
               /\ resp[h].data.higher_slab =
                    (IF HasBound(t, row, HigherCol) THEN Cell(t, row, HigherCol) ELSE None)
               /\ (t.columns[Len(t.columns)] = PayinName /\ IsNum(row[Len(row)]))
                    => resp[h].data.payin_amount = row[Len(row)]

\* two rows cover the amount, the later one with the tighter range and
\* another payout, and the earlier one is reported
FirstMatchWinsWitness ==
    \E h \in Handlers :
        /\ Scanned(h) /\ resp[h].status = 200
        /\ CoveringRows(df[h], req[h].data) = {1, 2}
        /\ resp[h].matched = 1
        /\ df[h].columns[Len(df[h].columns)] = PayinName
        /\ df[h].rows[1][6] # df[h].rows[2][6]
        /\ resp[h].data.payin_amount = df[h].rows[1][6]
        /\ Cell(df[h], df[h].rows[1], HigherCol) = NaN
        /\ Cell(df[h], df[h].rows[2], HigherCol) = Units(2)

\* the payout of a success comes from the first rate column of the matched row
RateDerived(h) ==
    /\ Scanned(h) /\ resp[h].status = 200
    /\ df[h].columns = Dims \o Slabs \o <<RatePctName>>
    /\ IsNum(df[h].rows[resp[h].matched][6])

\* C7: a payout derived from a rate column with non-null value r is
\* amount * (r / 100) if r > 1 and amount * r otherwise, for every amount of
\* any sign (r = 1 gives the amount, r = 50 half of it, r = 80 of 100 gives 80).
\* Amounts are whole numbers a, r and the payout are in thousandths.
RateThreshold ==
    \A h \in Handlers :
        RateDerived(h) =>
            LET a == AmountOf(req[h].data) \div 1000
                r == df[h].rows[resp[h].matched][6].v
            IN /\ IsNum(resp[h].data.payin_amount)
               /\ r > 1000 => resp[h].data.payin_amount.v * 100 = a * r
               /\ r <= 1000 => resp[h].data.payin_amount.v = a * r

\* r = 80 with amount 100 gives 80
RateThresholdWitness ==
    \E h \in Handlers :
        /\ RateDerived(h)
        /\ AmountOf(req[h].data) = 100000
        /\ df[h].rows[resp[h].matched][6] = Units(80)
        /\ resp[h].data.payin_amount = Units(80)

-----------------------------------------------------------------------------
(* The payout the specification derives from a row *)

\* the first covering row of a scanned request, 0 when there is none
FirstCovering(h) ==
    LET hits == CoveringRows(df[h], req[h].data)
    IN IF hits = {} THEN 0 ELSE CHOOSE i \in hits : \A j \in hits : i <= j

\* the first rate column of the row holds a number
HasRate(t, row) == RateColumns(t) # << >> /\ IsNum(row[RateColumns(t)[1]])

\* amount * (r / 100) if r > 1 else amount * r, for a whole amount
RateOf(t, row, data) ==
    LET a == AmountOf(data) \div 1000
        r == row[RateColumns(t)[1]].v
    IN IF r > 1000 THEN Num((a * r) \div 100) ELSE Num(a * r)

\* C3: when the first payin/amount column of the matched row is null,
\* calculate falls through to the first rate column and derives the payout
\* from it, and fails only if that yields no number either.
NullPayinFallsThrough ==
    \A h \in Handlers :
        (/\ Scanned(h) /\ FirstCovering(h) # 0
         /\ PayinColumns(df[h]) # << >>
         /\ IsNa(df[h].rows[FirstCovering(h)][PayinColumns(df[h])[1]])) =>
            LET t == df[h]
                row == t.rows[FirstCovering(h)]
            IN IF HasRate(t, row)
               THEN /\ resp[h].status = 200
                    /\ resp[h].data.payin_amount = RateOf(t, row, req[h].data)
               ELSE resp[h].status # 200

\* C4: a success has payin_amount 0 only if the payout column held a
\* non-null numeric 0 or the rate computation is numerically 0; a null payout
\* value never ends in a success.
NoZeroFallback ==
    \A h \in Handlers :
        (Scanned(h) /\ resp[h].status = 200 /\ resp[h].data.payin_amount = Units(0)) =>
            LET t == df[h]
                row == t.rows[FirstCovering(h)]
            IN /\ FirstCovering(h) # 0
               /\ \/ PayinColumns(t) # << >> /\ row[PayinColumns(t)[1]] = Units(0)
                  \/ /\ PayinColumns(t) = << >> \/ IsNa(row[PayinColumns(t)[1]])
                     /\ HasRate(t, row)
                     /\ RateOf(t, row, req[h].data) = Units(0)

\* C5: NoRateFound exactly when no row matches the triple, NoSlabMatch
\* exactly when rows match the triple but none covers the amount; a covered
\* amount without a usable payout is a different failure.
FailuresDistinguished ==
    \A h \in Handlers :
        (/\ Calculated(h) /\ df[h].loaded /\ HasDims(df[h]) /\ ValidBody(req[h].data)) =>
            /\ resp[h].detail = "No data found" <=> TripleRows(df[h], req[h].data) = {}
            /\ resp[h].detail = "No matching slab found" <=>
                    (/\ TripleRows(df[h], req[h].data) # {}
                     /\ CoveringRows(df[h], req[h].data) = {})

\* C6: a body with a missing or empty lender, product or region, or with an
\* amount that is missing or not a finite number, is rejected with status
\* 400 before any row is filtered or scanned.
InvalidInputRejected ==
    \A h \in Handlers :
        (Calculated(h) /\ df[h].loaded /\ HasDims(df[h]) /\ ~ValidBody(req[h].data)) =>
            resp[h].status = 400 /\ resp[h].matched = 0

-----------------------------------------------------------------------------
(* Lookups, stated on the sheet as found on disk *)

\* position of the column whose trimmed header is name, 0 if none
SheetCol(name) ==
    IF \E i \in 1..Len(file.columns) : Strip(file.columns[i]) = name
    THEN CHOOSE i \in 1..Len(file.columns) : Strip(file.columns[i]) = name
    ELSE 0

\* the cell is present and has the trimmed text s
CellIs(row, name, s) == IsStr(row[SheetCol(name)]) /\ Strip(row[SheetCol(name)].v) = s

\* non-empty trimmed values of the column among the sheet rows in keep
ValuesOf(name, keep) ==
    {Strip(file.rows[i][SheetCol(name)].v) :
        i \in {j \in keep : /\ IsStr(file.rows[j][SheetCol(name)])
                            /\ Strip(file.rows[j][SheetCol(name)].v) # << >>}}

\* q lists exactly the set S, without duplicates, in ascending order
ListsSorted(q, S) ==
    /\ {q[i] : i \in 1..Len(q)} = S
    /\ \A i \in 1..(Len(q) - 1) : StrLess(q[i], q[i + 1])

SheetRows == 1..Len(file.rows)

\* C8: the lookups return exactly the non-empty values of the requested
\* dimension among the rows matching the filter, without duplicates and in
\* ascending order; a missing cell contributes no value, and a filter that
\* matches no row gives an empty list as a success.
LookupsExact ==
    \A h \in Handlers :
        (/\ pc[h] = "done" /\ file.st = "ok"
         /\ SheetCol(LendersCol) # 0 /\ SheetCol(ProductCol) # 0 /\ SheetCol(RegionCol) # 0) =>
            /\ req[h].op = "data" =>
                /\ resp[h].status = 200
                /\ ListsSorted(resp[h].data.lenders, ValuesOf(LendersCol, SheetRows))
                /\ ListsSorted(resp[h].data.products, ValuesOf(ProductCol, SheetRows))
                /\ ListsSorted(resp[h].data.regions, ValuesOf(RegionCol, SheetRows))
            /\ req[h].op = "products" =>
                /\ resp[h].status = 200
                /\ ListsSorted(resp[h].data.products,
                               ValuesOf(ProductCol,
                                        {i \in SheetRows :
                                            CellIs(file.rows[i], LendersCol, Strip(req[h].lender))}))
            /\ req[h].op = "regions" =>
                /\ resp[h].status = 200
                /\ ListsSorted(resp[h].data.regions,
                               ValuesOf(RegionCol,
                                        {i \in SheetRows :
                                            /\ CellIs(file.rows[i], LendersCol, Strip(req[h].lender))
                                            /\ CellIs(file.rows[i], ProductCol, Strip(req[h].product))}))

\* the response reports the table as unavailable
DataUnavailable(h) ==
    IF req[h].op = "health" THEN resp[h].status = 503
    ELSE resp[h].status = 500 /\ resp[h].detail = "Excel data not loaded"

\* rows of the sheet with at least one cell that is not missing
UsableRows == {i \in 1..Len(file.rows) : \E j \in 1..Len(file.rows[i]) : ~IsNa(file.rows[i][j])}

\* C9: a source that cannot be read or yields zero usable rows leaves no
\* table: the handler never holds a loaded but empty table, every query then
\* fails with DataUnavailable and the health check answers 503.
EmptyIsUnavailable ==
    \A h \in Handlers :
        (/\ pc[h] = "done"
         /\ \/ file.st # "ok"
            \/ /\ UsableRows = {}
               /\ SheetCol(LendersCol) # 0 /\ SheetCol(ProductCol) # 0 /\ SheetCol(RegionCol) # 0) =>
            ~df[h].loaded /\ DataUnavailable(h)

-----------------------------------------------------------------------------
(* Interleaved handlers *)

\* every cleaning step of initialize_data has been applied to the table
IsClean(t) ==
    /\ \A i \in 1..Len(t.columns) : Strip(t.columns[i]) = t.columns[i]
    /\ \A r \in 1..Len(t.rows), i \in 1..Len(t.columns) :
        /\ t.columns[i] \in {LendersCol, ProductCol, RegionCol} =>
                IsStr(t.rows[r][i]) /\ Strip(t.rows[r][i].v) = t.rows[r][i].v
        /\ t.columns[i] \in {LowerCol, HigherCol} => ~IsStr(t.rows[r][i])
    /\ \A r \in 1..Len(t.rows) : \E i \in 1..Len(t.columns) : ~IsNa(t.rows[r][i])

\* C10: under any interleaving of handlers and replacements of the sheet, the
\* table a query reads is absent or fully cleaned, it is the same table for
\* the whole of the query, and the query does not write to it.
ReadersSeeWholeTable ==
    [][\A h \in Handlers :
          pc[h] = "ready" =>
              /\ ~df[h].loaded \/ IsClean(df[h])
              /\ df'[h] = df[h]]_vars

\* a query answered from a loaded table while another handler is in the
\* middle of cleaning a different sheet and the file is gone from disk
ReadersSeeWholeTableWitness ==
    \E h, g \in Handlers :
        /\ pc[h] = "done" /\ req[h].op = "calculate" /\ resp[h].status = 200
        /\ pc[g] = "numeric" /\ ldf[g].columns # df[h].columns
        /\ file.st = "missing"

=============================================================================
